---- MODULE Spec2Model ----
(***************************************************************************)
(* Model of Targeting_fragment_size.py: the two commands of the script.    *)
(*                                                                         *)
(*   calc-distances      read_enzyme_positions -> calculate_distances      *)
(*                       (find_closest) -> write_results                   *)
(*   finalize-distances  read_fragment_lengths, read_directions ->         *)
(*                       calculate_final_distances -> write_final_distances*)
(*                                                                         *)
(* A text (a Python str, a CSV field) is a sequence of tokens: a decimal   *)
(* digit, a sign, or one literal of the source or of the input alphabet    *)
(* ("N/A", " UpstreamDist", "EcoRI").  An f-string is the concatenation of *)
(* its parts.  A CSV file is a sequence of rows, a row a sequence of       *)
(* texts.  A Python value is tagged with its type: [int |-> n],            *)
(* [str |-> text] or [none |-> TRUE].  A Python dict is a pair of aligned  *)
(* sequences (keys in insertion order, values).                            *)
(***************************************************************************)
EXTENDS Integers, Sequences, FiniteSets, TLC

VARIABLES
    pc,                 \* position of the run
    positions,          \* find_closest: its argument list
    target,             \* find_closest: its target
    closest,            \* find_closest: the pair it returned
    enzyme_file,        \* calc-distances: rows of --enzyme-file
    integration_file,   \* calc-distances: rows of --integration-file
    rows_read,          \* rows the current csv reader has handed out
    enzyme_positions,   \* dict enzyme -> dict chromosome -> list of int
    results,            \* list of row_data
    output_file,        \* the file at --output of calc-distances
    distances_file,     \* finalize-distances: --distances-file
    lengths,            \* dict enzyme -> [L, H]
    directions,         \* dict site -> dict column -> text
    final_distances,    \* list of new_row dicts
    dynamic_fieldnames  \* set of column names

vars == <<pc, positions, target, closest, enzyme_file, integration_file,
          rows_read, enzyme_positions, results, output_file,
          distances_file, lengths, directions, final_distances,
          dynamic_fieldnames>>

locatorVars == <<positions, target, closest>>
stage1Vars == <<enzyme_file, integration_file, enzyme_positions, results,
                output_file>>
stage2Vars == <<distances_file, lengths, directions, final_distances,
                dynamic_fieldnames>>

-----------------------------------------------------------------------------
(* Python values *)

PyInt(n) == [int |-> n]
PyStr(t) == [str |-> t]
PyNone == [none |-> TRUE]
IsNone(v) == "none" \in DOMAIN v
IsInt(v) == "int" \in DOMAIN v

NA == <<"N/A">>

(* dict: keys in insertion order, vals aligned with keys *)
EmptyDict == [keys |-> <<>>, vals |-> <<>>]
DictHas(d, k) == \E i \in 1..Len(d.keys) : d.keys[i] = k
DictIndex(d, k) == CHOOSE i \in 1..Len(d.keys) : d.keys[i] = k
DictGet(d, k) == d.vals[DictIndex(d, k)]
DictSet(d, k, v) ==
    IF DictHas(d, k)
    THEN [d EXCEPT !.vals[DictIndex(d, k)] = v]
    ELSE [keys |-> Append(d.keys, k), vals |-> Append(d.vals, v)]

-----------------------------------------------------------------------------
(* int(text) and str(int) *)

Digits == <<"0", "1", "2", "3", "4", "5", "6", "7", "8", "9">>
IsDigit(c) == \E i \in 1..Len(Digits) : Digits[i] = c
DigitValue(c) == (CHOOSE i \in 1..Len(Digits) : Digits[i] = c) - 1

RECURSIVE NatToText(_)
NatToText(n) ==
    IF n < Len(Digits) THEN <<Digits[n + 1]>>
    ELSE NatToText(n \div Len(Digits)) \o <<Digits[(n % Len(Digits)) + 1]>>

(* str(n), as csv.writer applies it to an int field *)
IntToText(n) == IF n < 0 THEN <<"-">> \o NatToText(-n) ELSE NatToText(n)

Unsigned(t) ==
    IF Len(t) > 0 /\ t[1] \in {"-", "+"} THEN SubSeq(t, 2, Len(t)) ELSE t

(* int(t) raises ValueError unless t is an optionally signed digit string.  *)
(* int() also strips blanks and takes "_" between digits; neither occurs in *)
(* the input alphabets below.                                               *)
IsIntText(t) ==
    /\ Len(Unsigned(t)) > 0
    /\ \A i \in 1..Len(Unsigned(t)) : IsDigit(Unsigned(t)[i])

RECURSIVE DigitsToNat(_)
DigitsToNat(t) ==
    IF Len(t) = 0 THEN 0
    ELSE DigitsToNat(SubSeq(t, 1, Len(t) - 1)) * Len(Digits)
         + DigitValue(t[Len(t)])

TextToInt(t) ==
    IF Len(t) > 0 /\ t[1] = "-" THEN -DigitsToNat(Unsigned(t))
    ELSE DigitsToNat(Unsigned(t))

(* csv.writer.writerow: every field through str() *)
FieldText(v) == IF IsInt(v) THEN IntToText(v.int) ELSE v.str
CsvRow(row_data) == [i \in 1..Len(row_data) |-> FieldText(row_data[i])]

-----------------------------------------------------------------------------
(* list.sort() of a list of int *)

RECURSIVE InsertSorted(_, _)
InsertSorted(s, x) ==
    IF Len(s) = 0 THEN <<x>>
    ELSE IF x < s[1] THEN <<x>> \o s
    ELSE <<s[1]>> \o InsertSorted(Tail(s), x)

RECURSIVE SortList(_)
SortList(s) ==
    IF Len(s) = 0 THEN <<>>
    ELSE InsertSorted(SortList(SubSeq(s, 1, Len(s) - 1)), s[Len(s)])

-----------------------------------------------------------------------------
(* find_closest *)

(* find_closest taking an element equal to the target as upstream *)
RECURSIVE FindClosestFromInclusive(_, _, _, _)
FindClosestFromInclusive(ps, t, i, upstream) ==
    IF i > Len(ps) THEN <<upstream, PyNone>>
    ELSE IF ps[i] <= t THEN FindClosestFromInclusive(ps, t, i + 1, PyInt(ps[i]))
    ELSE <<upstream, PyInt(ps[i])>>

(* find_closest leaving the loop at an element equal to the target *)
RECURSIVE FindClosestFromStopAtEqual(_, _, _, _)
FindClosestFromStopAtEqual(ps, t, i, upstream) ==
    IF i > Len(ps) THEN <<upstream, PyNone>>
    ELSE IF ps[i] < t
         THEN FindClosestFromStopAtEqual(ps, t, i + 1, PyInt(ps[i]))
    ELSE IF ps[i] > t THEN <<upstream, PyInt(ps[i])>>
    ELSE <<upstream, PyNone>>

RECURSIVE FindClosestFrom(_, _, _, _)
FindClosestFrom(ps, t, i, upstream) ==
    IF i > Len(ps) THEN <<upstream, PyNone>>
    ELSE IF ps[i] < t THEN FindClosestFrom(ps, t, i + 1, PyInt(ps[i]))
    ELSE IF ps[i] > t THEN <<upstream, PyInt(ps[i])>>
    ELSE FindClosestFrom(ps, t, i + 1, upstream)

find_closest(ps, t) == FindClosestFrom(ps, t, 1, PyNone)

-----------------------------------------------------------------------------
(* read_enzyme_positions *)

(* the loop body for one row with 3 fields *)
AddEnzymePosition(ep, row) ==
    LET enzyme == row[1]
        chromosome == row[2]
        position == TextToInt(row[3])
        ep1 == IF DictHas(ep, enzyme) THEN ep ELSE DictSet(ep, enzyme, EmptyDict)
        byChrom == DictGet(ep1, enzyme)
        byChrom1 == IF DictHas(byChrom, chromosome) THEN byChrom
                    ELSE DictSet(byChrom, chromosome, <<>>)
    IN  DictSet(ep1, enzyme,
                DictSet(byChrom1, chromosome,
                        Append(DictGet(byChrom1, chromosome), position)))

(* the loop body: a row without exactly 3 fields is skipped with a warning *)
ReadEnzymeRowStep(ep, row) ==
    IF Len(row) = 3 THEN AddEnzymePosition(ep, row) ELSE ep

(* the row makes int(position) raise ValueError *)
RowRaises(row) == Len(row) = 3 /\ ~IsIntText(row[3])

(* read_enzyme_positions without its trailing loop *)
SortPositionListsSkipped(ep) == ep

(* the trailing loop: every position list sorted *)
SortPositionLists(ep) ==
    [ep EXCEPT !.vals =
        [e \in 1..Len(ep.vals) |->
            [ep.vals[e] EXCEPT !.vals =
                [c \in 1..Len(ep.vals[e].vals) |-> SortList(ep.vals[e].vals[c])]]]]

RECURSIVE ReadEnzymeRows(_, _)
ReadEnzymeRows(ep, rows) ==
    IF Len(rows) = 0 THEN ep
    ELSE ReadEnzymeRows(ReadEnzymeRowStep(ep, rows[1]), Tail(rows))

read_enzyme_positions(file) == SortPositionLists(ReadEnzymeRows(EmptyDict, file))

-----------------------------------------------------------------------------
(* calculate_distances *)

upstream_distance(position, upstream) ==
    IF ~IsNone(upstream) THEN PyInt(position - upstream.int) ELSE PyStr(NA)

downstream_distance(position, downstream) ==
    IF ~IsNone(downstream) THEN PyInt(downstream.int - position) ELSE PyStr(NA)

(* the enzyme loop passing over an enzyme without the chromosome *)
EnzymeDistancesSkipping(ep, enzyme, chromosome, position) ==
    IF DictHas(DictGet(ep, enzyme), chromosome)
    THEN LET found == find_closest(DictGet(DictGet(ep, enzyme), chromosome),
                                   position)
         IN  <<PyStr(enzyme), upstream_distance(position, found[1]),
               downstream_distance(position, found[2])>>
    ELSE <<>>

(* what the enzyme loop extends row_data by for one enzyme *)
EnzymeDistances(ep, enzyme, chromosome, position) ==
    IF DictHas(DictGet(ep, enzyme), chromosome)
    THEN LET found == find_closest(DictGet(DictGet(ep, enzyme), chromosome),
                                   position)
         IN  <<PyStr(enzyme), upstream_distance(position, found[1]),
               downstream_distance(position, found[2])>>
    ELSE <<PyStr(enzyme), PyStr(NA), PyStr(NA)>>

RECURSIVE EnzymeLoop(_, _, _, _)
EnzymeLoop(ep, i, chromosome, position) ==
    IF i > Len(ep.keys) THEN <<>>
    ELSE EnzymeDistances(ep, ep.keys[i], chromosome, position)
         \o EnzymeLoop(ep, i + 1, chromosome, position)

RowData(ep, row) ==
    LET position == TextToInt(row[3])
    IN  <<PyStr(row[1]), PyStr(row[2]), PyInt(position)>>
        \o EnzymeLoop(ep, 1, row[2], position)

(* the loop body taking the first 3 fields of a longer row *)
CalculateRowStepLoose(ep, res, row) ==
    IF Len(row) >= 3 THEN Append(res, RowData(ep, row)) ELSE res

(* the loop body: a row without exactly 3 fields is skipped with a warning *)
CalculateRowStep(ep, res, row) ==
    IF Len(row) = 3 THEN Append(res, RowData(ep, row)) ELSE res

RECURSIVE CalculateRows(_, _, _)
CalculateRows(ep, res, rows) ==
    IF Len(rows) = 0 THEN res
    ELSE CalculateRows(ep, CalculateRowStep(ep, res, rows[1]), Tail(rows))

calculate_distances(ep, file) == CalculateRows(ep, <<>>, file)

-----------------------------------------------------------------------------
(* write_results *)

(* chunked[i] for i in range(0, len(chunked), 3), chunked = row_example[3:] *)
EnzymeNames(row_example) ==
    [k \in 1..((Len(row_example) - 3 + 2) \div 3) |-> row_example[3 * k + 1]]

RECURSIVE HeaderColumns(_)
HeaderColumns(enzyme_names) ==
    IF Len(enzyme_names) = 0 THEN <<>>
    ELSE <<FieldText(enzyme_names[1]) \o <<" UpstreamDist">>,
           FieldText(enzyme_names[1]) \o <<" DownstreamDist">>>>
         \o HeaderColumns(Tail(enzyme_names))

Header(res) ==
    <<(<<"IntegrationSite#">>), (<<"Chromosome">>), (<<"Position">>)>>
    \o HeaderColumns(EnzymeNames(res[1]))

(* write_results opening the file before it looks at the results *)
write_results_truncating(res, file) ==
    IF Len(res) = 0 THEN [exists |-> TRUE, rows |-> <<>>]
    ELSE [exists |-> TRUE,
          rows |-> <<Header(res)>> \o [i \in 1..Len(res) |-> CsvRow(res[i])]]

(* the file at the output path after write_results(res, path) *)
write_results(res, file) ==
    IF Len(res) = 0 THEN file
    ELSE [exists |-> TRUE,
          rows |-> <<Header(res)>> \o [i \in 1..Len(res) |-> CsvRow(res[i])]]

-----------------------------------------------------------------------------
(* csv.DictReader: the first row is the header; a blank row is skipped; a   *)
(* short row is padded with None.  The fields of a long row beyond the      *)
(* header go under the key None, which no lookup of the script uses, and    *)
(* are left out.                                                            *)

RECURSIVE ZipDict(_, _, _)
ZipDict(fieldnames, row, i) ==
    IF i = 0 THEN EmptyDict
    ELSE DictSet(ZipDict(fieldnames, row, i - 1), fieldnames[i],
                 IF i <= Len(row) THEN PyStr(row[i]) ELSE PyNone)

NotBlank(row) == Len(row) > 0

DictReader(rows) ==
    IF Len(rows) = 0 THEN <<>>
    ELSE LET data == SelectSeq(Tail(rows), NotBlank)
         IN  [i \in 1..Len(data) |-> ZipDict(rows[1], data[i], Len(rows[1]))]

(* int(v) raises: TypeError on None, ValueError on a non-numeric text *)
IntRaises(v) == IsNone(v) \/ ~IsIntText(v.str)

-----------------------------------------------------------------------------
(* read_fragment_lengths *)

LengthsRowRaises(row) ==
    \/ \E k \in {<<"Name">>, <<"L">>, <<"H">>} : ~DictHas(row, k)
    \/ IntRaises(DictGet(row, <<"L">>))
    \/ IntRaises(DictGet(row, <<"H">>))

RECURSIVE ReadLengthRows(_, _)
ReadLengthRows(ls, rows) ==
    IF Len(rows) = 0 THEN ls
    ELSE ReadLengthRows(
             DictSet(ls, DictGet(rows[1], <<"Name">>),
                     [L |-> TextToInt(DictGet(rows[1], <<"L">>).str),
                      H |-> TextToInt(DictGet(rows[1], <<"H">>).str)]),
             Tail(rows))

read_fragment_lengths(file) == ReadLengthRows(EmptyDict, DictReader(file.rows))

read_fragment_lengths_raises(file) ==
    \E i \in 1..Len(DictReader(file.rows)) :
        LengthsRowRaises(DictReader(file.rows)[i])

-----------------------------------------------------------------------------
(* read_directions *)

RECURSIVE ReadDirectionRows(_, _)
ReadDirectionRows(ds, rows) ==
    IF Len(rows) = 0 THEN ds
    ELSE ReadDirectionRows(
             DictSet(ds, DictGet(rows[1], <<"IntegrationSite#">>), rows[1]),
             Tail(rows))

read_directions(file) == ReadDirectionRows(EmptyDict, DictReader(file.rows))

read_directions_raises(file) ==
    \E i \in 1..Len(DictReader(file.rows)) :
        ~DictHas(DictReader(file.rows)[i], <<"IntegrationSite#">>)

-----------------------------------------------------------------------------
(* calculate_final_distances *)

DirectionTypes == <<"L", "H">>

direction_key(enzyme, direction_type) == enzyme.str \o <<"_", direction_type>>

site_directions(ds, site_id) ==
    IF DictHas(ds, site_id) THEN DictGet(ds, site_id) ELSE EmptyDict

(* site_directions.get(direction_key, '') *)
user_direction(ds, site_id, key) ==
    IF DictHas(site_directions(ds, site_id), key)
    THEN DictGet(site_directions(ds, site_id), key)
    ELSE PyStr(<<>>)

(* the direction test with "up" as the fallback *)
dist_key_default_up(enzyme, direction) ==
    IF direction = PyStr(<<"down">>)
    THEN PyStr(enzyme.str \o <<" DownstreamDist">>)
    ELSE PyStr(enzyme.str \o <<" UpstreamDist">>)

dist_key(enzyme, direction) ==
    IF direction = PyStr(<<"up">>) THEN PyStr(enzyme.str \o <<" UpstreamDist">>)
    ELSE IF direction = PyStr(<<"down">>)
         THEN PyStr(enzyme.str \o <<" DownstreamDist">>)
         ELSE PyNone

(* dist_key and dist_key in row and row[dist_key] != 'N/A' *)
HasDistance(row, key) ==
    /\ ~IsNone(key)
    /\ DictHas(row, key.str)
    /\ DictGet(row, key.str) # PyStr(NA)

(* the value stored under direction_key in new_row *)
final_distance(row, ds, ls, enzyme, direction_type) ==
    LET key == dist_key(enzyme,
                        user_direction(ds, DictGet(row, <<"IntegrationSite#">>),
                                       direction_key(enzyme, direction_type)))
    IN  IF HasDistance(row, key)
        THEN PyInt(TextToInt(DictGet(row, key.str).str)
                   + DictGet(ls, enzyme)[direction_type])
        ELSE PyStr(NA)

FinalDistanceRaises(row, ds, ls, enzyme, direction_type) ==
    LET key == dist_key(enzyme,
                        user_direction(ds, DictGet(row, <<"IntegrationSite#">>),
                                       direction_key(enzyme, direction_type)))
    IN  HasDistance(row, key) /\ IntRaises(DictGet(row, key.str))

IdentityColumns == <<(<<"IntegrationSite#">>), (<<"Chromosome">>), (<<"Position">>)>>

FinalRowRaises(row, ds, ls) ==
    \/ \E k \in 1..Len(IdentityColumns) : ~DictHas(row, IdentityColumns[k])
    \/ \E e \in 1..Len(ls.keys), t \in 1..Len(DirectionTypes) :
           FinalDistanceRaises(row, ds, ls, ls.keys[e], DirectionTypes[t])

(* the pairs (enzyme, direction_type) in the order of the nested loops *)
LoopPairs(ls) ==
    [n \in 1..(Len(ls.keys) * Len(DirectionTypes)) |->
        <<ls.keys[((n - 1) \div Len(DirectionTypes)) + 1],
          DirectionTypes[((n - 1) % Len(DirectionTypes)) + 1]>>]

RECURSIVE FillRow(_, _, _, _, _)
FillRow(new_row, row, ds, ls, n) ==
    IF n = 0 THEN new_row
    ELSE DictSet(FillRow(new_row, row, ds, ls, n - 1),
                 direction_key(LoopPairs(ls)[n][1], LoopPairs(ls)[n][2]),
                 final_distance(row, ds, ls, LoopPairs(ls)[n][1],
                                LoopPairs(ls)[n][2]))

(* new_row after the loops over lengths.keys() and ['L', 'H'] *)
NewRow(row, ds, ls) ==
    FillRow([keys |-> IdentityColumns,
             vals |-> [k \in 1..Len(IdentityColumns) |->
                          DictGet(row, IdentityColumns[k])]],
            row, ds, ls, Len(LoopPairs(ls)))

(* dynamic_fieldnames after the loops of one row *)
AddFieldnames(names, ls) ==
    names \cup {direction_key(LoopPairs(ls)[n][1], LoopPairs(ls)[n][2]) :
                   n \in 1..Len(LoopPairs(ls))}

-----------------------------------------------------------------------------
(* Inputs of calc-distances *)

MaxEnzymeRows == 2
MaxSiteRows == 2

SeqsUpTo(S, n) == UNION {[1..k -> S] : k \in 0..n}

ChromosomeIds == {<<"chr1">>, <<"chr2">>}
EnzymeCoords == {100, 500}
SiteCoords == {100, 300}

EnzymeRowSet ==
    {<<(<<"EcoRI">>), (<<"chr1">>), IntToText(p)>> : p \in EnzymeCoords}
    \cup {<<(<<"BamHI">>), c, IntToText(500)>> : c \in ChromosomeIds}
    \cup {<<(<<"EcoRI">>), (<<"chr1">>), (<<"2","0","0">>), (<<"+">>)>>,
          <<(<<"EcoRI">>), (<<"chr1">>), (<<"BglII">>)>>}

SiteRowSet ==
    {<<(<<"site1">>), (<<"chr1">>), IntToText(p)>> : p \in SiteCoords}
    \cup {<<>>,
          <<(<<"site2">>), (<<"chr1">>), (<<"2","0","0">>), (<<"+">>)>>,
          <<(<<"site2">>), (<<"chr1">>), (<<"pos">>)>>}

EnzymeFiles == SeqsUpTo(EnzymeRowSet, MaxEnzymeRows)
IntegrationFiles == SeqsUpTo(SiteRowSet, MaxSiteRows)

NoFile == [exists |-> FALSE, rows |-> <<>>]
StaleFile == [exists |-> TRUE, rows |-> <<<<(<<"stale">>)>>>>]

LocatorIdle ==
    /\ positions = <<>>
    /\ target = 0
    /\ closest = <<PyNone, PyNone>>

CalcIdle ==
    /\ enzyme_file = <<>>
    /\ integration_file = <<>>
    /\ enzyme_positions = EmptyDict
    /\ results = <<>>
    /\ output_file = NoFile

FinalizeIdle ==
    /\ distances_file = NoFile
    /\ lengths = EmptyDict
    /\ directions = EmptyDict
    /\ final_distances = <<>>
    /\ dynamic_fieldnames = {}

(* main, command calc-distances, before read_enzyme_positions *)
Init ==
    /\ pc = "read_enzyme_positions"
    /\ enzyme_file \in EnzymeFiles
    /\ integration_file \in IntegrationFiles
    /\ rows_read = 0
    /\ enzyme_positions = EmptyDict
    /\ results = <<>>
    /\ output_file \in {NoFile, StaleFile}
    /\ LocatorIdle
    /\ FinalizeIdle

-----------------------------------------------------------------------------
(* Steps of calc-distances *)

(* read_enzyme_positions: one iteration of the reader loop *)
ReadEnzymeRow ==
    /\ pc = "read_enzyme_positions"
    /\ rows_read < Len(enzyme_file)
    /\ LET row == enzyme_file[rows_read + 1]
       IN  IF RowRaises(row)
           THEN /\ pc' = "raised in read_enzyme_positions"
                /\ UNCHANGED <<rows_read, enzyme_positions>>
           ELSE /\ pc' = pc
                /\ rows_read' = rows_read + 1
                /\ enzyme_positions' = ReadEnzymeRowStep(enzyme_positions, row)
    /\ UNCHANGED <<enzyme_file, integration_file, results, output_file>>
    /\ UNCHANGED <<locatorVars, stage2Vars>>

(* read_enzyme_positions: the reader is exhausted; sort and return *)
SortPositions ==
    /\ pc = "read_enzyme_positions"
    /\ rows_read = Len(enzyme_file)
    /\ enzyme_positions' = SortPositionLists(enzyme_positions)
    /\ pc' = "calculate_distances"
    /\ rows_read' = 0
    /\ UNCHANGED <<enzyme_file, integration_file, results, output_file>>
    /\ UNCHANGED <<locatorVars, stage2Vars>>

(* calculate_distances: one iteration of the reader loop *)
CalculateRow ==
    /\ pc = "calculate_distances"
    /\ rows_read < Len(integration_file)
    /\ LET row == integration_file[rows_read + 1]
       IN  IF RowRaises(row)
           THEN /\ pc' = "raised in calculate_distances"
                /\ UNCHANGED <<rows_read, results>>
           ELSE /\ pc' = pc
                /\ rows_read' = rows_read + 1
                /\ results' = CalculateRowStep(enzyme_positions, results, row)
    /\ UNCHANGED <<enzyme_file, integration_file, enzyme_positions, output_file>>
    /\ UNCHANGED <<locatorVars, stage2Vars>>

(* calculate_distances returns; main calls write_results *)
WriteResults ==
    /\ pc = "calculate_distances"
    /\ rows_read = Len(integration_file)
    /\ output_file' = write_results(results, output_file)
    /\ pc' = "calc_done"
    /\ UNCHANGED <<rows_read, enzyme_file, integration_file, enzyme_positions,
                   results>>
    /\ UNCHANGED <<locatorVars, stage2Vars>>

Next == ReadEnzymeRow \/ SortPositions \/ CalculateRow \/ WriteResults

Spec == Init /\ [][Next]_vars

-----------------------------------------------------------------------------
(* Inputs of finalize-distances *)

MaxLengthRows == 2
MaxDirectionRows == 1
MaxTableRows == 2

FileOf(header, rows) == [exists |-> TRUE, rows |-> <<header>> \o rows]

LengthsHeader == <<(<<"Name">>), (<<"L">>), (<<"H">>)>>

LengthRowSet ==
    {<<(<<"EcoRI">>), IntToText(50), IntToText(-10)>>,
     <<(<<"EcoRI">>), IntToText(-300), IntToText(50)>>,
     <<(<<"BamHI">>), IntToText(50), IntToText(-10)>>,
     <<(<<"EcoRI">>), (<<"long">>), IntToText(50)>>}

LengthsFiles ==
    {FileOf(LengthsHeader, rows) : rows \in SeqsUpTo(LengthRowSet, MaxLengthRows)}

DirectionsHeader ==
    <<(<<"IntegrationSite#">>), direction_key(PyStr(<<"EcoRI">>), "L"),
      direction_key(PyStr(<<"EcoRI">>), "H")>>

DirectionWords == {<<"up">>, <<"down">>, <<>>, <<"UP">>}

DirectionRowSet ==
    {<<(<<"site1">>), l, h>> : l \in DirectionWords, h \in DirectionWords}

AllUpFile ==
    FileOf(DirectionsHeader \o <<direction_key(PyStr(<<"BamHI">>), "L"),
                                 direction_key(PyStr(<<"BamHI">>), "H")>>,
           <<<<(<<"site1">>), (<<"up">>), (<<"up">>), (<<"up">>), (<<"up">>)>>>>)

DirectionsFiles ==
    {FileOf(DirectionsHeader, rows) :
        rows \in SeqsUpTo(DirectionRowSet, MaxDirectionRows)}
    \cup {AllUpFile}

TableHeaders ==
    {IdentityColumns,
     IdentityColumns \o <<(<<"EcoRI", " UpstreamDist">>),
                          (<<"EcoRI", " DownstreamDist">>)>>}

TableRowSet ==
    {<<(<<"site1">>), (<<"chr1">>), IntToText(300), IntToText(200), IntToText(400)>>,
     <<(<<"site1">>), (<<"chr1">>), IntToText(300), NA, IntToText(400)>>,
     <<(<<"site2">>), (<<"chr1">>), IntToText(300), IntToText(200), NA>>,
     <<(<<"site1">>), (<<"chr1">>), IntToText(300), (<<"EcoRI">>), IntToText(200)>>,
     <<(<<"site1">>), (<<"chr1">>), IntToText(300)>>}

DistanceTables ==
    {FileOf(h, rows) : h \in TableHeaders,
                       rows \in SeqsUpTo(TableRowSet, MaxTableRows)}

(* main, command finalize-distances, before read_fragment_lengths *)
InitFinal ==
    /\ pc = "read_fragment_lengths"
    /\ distances_file \in DistanceTables
    /\ lengths = EmptyDict
    /\ directions = EmptyDict
    /\ final_distances = <<>>
    /\ dynamic_fieldnames = {}
    /\ rows_read = 0
    /\ LocatorIdle
    /\ CalcIdle

-----------------------------------------------------------------------------
(* Steps of finalize-distances *)

(* main calls read_fragment_lengths(args.lengths_file) *)
ReadFragmentLengths ==
    /\ pc = "read_fragment_lengths"
    /\ \E lengths_file \in LengthsFiles :
           IF read_fragment_lengths_raises(lengths_file)
           THEN pc' = "raised in read_fragment_lengths" /\ UNCHANGED lengths
           ELSE /\ pc' = "read_directions"
                /\ lengths' = read_fragment_lengths(lengths_file)
    /\ UNCHANGED <<distances_file, directions, final_distances,
                   dynamic_fieldnames, rows_read>>
    /\ UNCHANGED <<locatorVars, stage1Vars>>

(* main calls read_directions(args.directions_file), then                   *)
(* calculate_final_distances, whose first statements set its two locals     *)
ReadDirections ==
    /\ pc = "read_directions"
    /\ \E directions_file \in DirectionsFiles :
           IF read_directions_raises(directions_file)
           THEN /\ pc' = "raised in read_directions"
                /\ UNCHANGED <<directions, dynamic_fieldnames>>
           ELSE /\ pc' = "calculate_final_distances"
                /\ directions' = read_directions(directions_file)
                /\ dynamic_fieldnames' =
                       {IdentityColumns[k] : k \in 1..Len(IdentityColumns)}
    /\ final_distances' = <<>>
    /\ rows_read' = 0
    /\ UNCHANGED <<distances_file, lengths>>
    /\ UNCHANGED <<locatorVars, stage1Vars>>

(* calculate_final_distances: open(distances_file) finds no file *)
OpenDistancesFails ==
    /\ pc = "calculate_final_distances"
    /\ ~distances_file.exists
    /\ pc' = "raised in open"
    /\ UNCHANGED <<rows_read, locatorVars, stage1Vars, stage2Vars>>

(* calculate_final_distances: one iteration of the reader loop *)
FinalRow ==
    /\ pc = "calculate_final_distances"
    /\ distances_file.exists
    /\ rows_read < Len(DictReader(distances_file.rows))
    /\ LET row == DictReader(distances_file.rows)[rows_read + 1]
       IN  IF FinalRowRaises(row, directions, lengths)
           THEN /\ pc' = "raised in calculate_final_distances"
                /\ UNCHANGED <<rows_read, final_distances, dynamic_fieldnames>>
           ELSE /\ pc' = pc
                /\ rows_read' = rows_read + 1
                /\ final_distances' =
                       Append(final_distances, NewRow(row, directions, lengths))
                /\ dynamic_fieldnames' = AddFieldnames(dynamic_fieldnames, lengths)
    /\ UNCHANGED <<distances_file, lengths, directions>>
    /\ UNCHANGED <<locatorVars, stage1Vars>>

(* calculate_final_distances returns final_distances and the fieldnames *)
ReturnFinalDistances ==
    /\ pc = "calculate_final_distances"
    /\ distances_file.exists
    /\ rows_read = Len(DictReader(distances_file.rows))
    /\ pc' = "final_done"
    /\ UNCHANGED <<rows_read, locatorVars, stage1Vars, stage2Vars>>

NextFinal ==
    ReadFragmentLengths \/ ReadDirections \/ FinalRow \/ ReturnFinalDistances

SpecFinal == InitFinal /\ [][NextFinal]_vars

-----------------------------------------------------------------------------
(* Both commands in a row: finalize-distances given the file that           *)
(* calc-distances wrote as its --distances-file                             *)

StartFinalize ==
    /\ pc = "calc_done"
    /\ pc' = "read_fragment_lengths"
    /\ distances_file' = output_file
    /\ UNCHANGED <<rows_read, lengths, directions, final_distances,
                   dynamic_fieldnames>>
    /\ UNCHANGED <<locatorVars, stage1Vars>>

NextPipeline ==
    \/ Next
    \/ StartFinalize
    \/ NextFinal
    \/ OpenDistancesFails

SpecPipeline == Init /\ [][NextPipeline]_vars

-----------------------------------------------------------------------------
(* find_closest on its own *)

MaxPositions == 3
MaxCoord == 4

Ascending(ps) == \A i \in 1..Len(ps), j \in 1..Len(ps) : i < j => ps[i] <= ps[j]

AscendingLists == {ps \in SeqsUpTo(0..MaxCoord, MaxPositions) : Ascending(ps)}

InitLocator ==
    /\ pc = "find_closest"
    /\ positions \in AscendingLists
    /\ target \in 0..MaxCoord
    /\ closest = <<PyNone, PyNone>>
    /\ rows_read = 0
    /\ CalcIdle
    /\ FinalizeIdle

FindClosest ==
    /\ pc = "find_closest"
    /\ closest' = find_closest(positions, target)
    /\ pc' = "found"
    /\ UNCHANGED <<positions, target, rows_read, stage1Vars, stage2Vars>>

SpecLocator == InitLocator /\ [][FindClosest]_vars

-----------------------------------------------------------------------------
(* Claims *)

Max(S) == CHOOSE x \in S : \A y \in S : y <= x
Min(S) == CHOOSE x \in S : \A y \in S : x <= y
Below(S, t) == {x \in S : x < t}
Above(S, t) == {x \in S : x > t}
Elements(ps) == {ps[i] : i \in 1..Len(ps)}

(* the greatest element strictly below t and the least strictly above t *)
NearestBelow(S, t) == IF Below(S, t) = {} THEN PyNone ELSE PyInt(Max(Below(S, t)))
NearestAbove(S, t) == IF Above(S, t) = {} THEN PyNone ELSE PyInt(Min(Above(S, t)))

(* C1: for an ascending list P and a target t, find_closest returns the     *)
(* greatest element of P strictly below t (or None) and the least element   *)
(* strictly above t (or None); an element equal to t is on neither side.    *)
C1_LocatorContract ==
    pc = "found" =>
        /\ closest[1] = NearestBelow(Elements(positions), target)
        /\ closest[2] = NearestAbove(Elements(positions), target)
        /\ (Elements(positions) \subseteq {target} => closest = <<PyNone, PyNone>>)

(* a list with a duplicate of the target between a smaller and a larger one *)
C1_Witness ==
    /\ pc = "found"
    /\ Len(positions) = 3
    /\ positions[2] = target
    /\ closest = <<PyInt(positions[1]), PyInt(positions[3])>>
    /\ positions[1] < target
    /\ target < positions[3]

-----------------------------------------------------------------------------
(* The inputs as the claims read them *)

ValidRows(file) == SelectSeq(file, LAMBDA row : Len(row) = 3)

(* the coordinates of enzyme e on chromosome c in the enzyme input *)
Coordinates(file, e, c) ==
    {TextToInt(ValidRows(file)[i][3]) :
        i \in {j \in 1..Len(ValidRows(file)) :
                  ValidRows(file)[j][1] = e /\ ValidRows(file)[j][2] = c}}

EnzymesOf(file) == {ValidRows(file)[i][1] : i \in 1..Len(ValidRows(file))}

(* the index is built and sorted: calculate_distances has been entered *)
Calculating ==
    pc \in {"calculate_distances", "raised in calculate_distances", "calc_done"}

(* the fields that the enzyme loop added to row_data for enzyme e *)
Triples(row_data, e) ==
    {k \in 1..((Len(row_data) - 3) \div 3) : row_data[3 * k + 1] = PyStr(e)}

ExpectedUpstream(e, c, p) ==
    IF Below(Coordinates(enzyme_file, e, c), p) = {} THEN PyStr(NA)
    ELSE PyInt(p - Max(Below(Coordinates(enzyme_file, e, c), p)))

ExpectedDownstream(e, c, p) ==
    IF Above(Coordinates(enzyme_file, e, c), p) = {} THEN PyStr(NA)
    ELSE PyInt(Min(Above(Coordinates(enzyme_file, e, c), p)) - p)

(* C2: for every valid site (c, p) and every enzyme e of the enzyme input,  *)
(* given in any order, the upstream distance is p minus the greatest        *)
(* coordinate of e on c below p, the downstream distance the least          *)
(* coordinate above p minus p, "N/A" on a side without such a coordinate    *)
(* (both when e has no row on c); a numeric distance is strictly positive.  *)
C2_Distances ==
    Calculating =>
        \A i \in 1..Len(results) : \A e \in EnzymesOf(enzyme_file) :
            /\ Cardinality(Triples(results[i], e)) = 1
            /\ \A k \in Triples(results[i], e) :
                LET c == results[i][2].str
                    p == results[i][3].int
                    up == results[i][3 * k + 2]
                    down == results[i][3 * k + 3]
                IN  /\ up = ExpectedUpstream(e, c, p)
                    /\ down = ExpectedDownstream(e, c, p)
                    /\ (IsInt(up) => up.int > 0)
                    /\ (IsInt(down) => down.int > 0)
                    /\ (Coordinates(enzyme_file, e, c) = {}
                            => up = PyStr(NA) /\ down = PyStr(NA))

(* enzyme rows in descending order, a site between them, and an enzyme      *)
(* without a row on the site's chromosome                                   *)
C2_Witness ==
    /\ pc = "calc_done"
    /\ Len(enzyme_file) = 2
    /\ enzyme_file[1] = <<(<<"EcoRI">>), (<<"chr1">>), IntToText(500)>>
    /\ enzyme_file[2] = <<(<<"EcoRI">>), (<<"chr1">>), IntToText(100)>>
    /\ Len(results) = 1
    /\ results[1] = <<PyStr(<<"site1">>), PyStr(<<"chr1">>), PyInt(300),
                      PyStr(<<"EcoRI">>), PyInt(200), PyInt(200)>>

-----------------------------------------------------------------------------
(* The example of C4: cut sites 100 and 500, a site exactly at 100 *)

ExactMatchInput ==
    /\ enzyme_file = <<(<<(<<"EcoRI">>), (<<"chr1">>), IntToText(100)>>),
                       (<<(<<"EcoRI">>), (<<"chr1">>), IntToText(500)>>)>>
    /\ integration_file = <<(<<(<<"site1">>), (<<"chr1">>), IntToText(100)>>)>>

(* C4 as stated: a site at a cut site gets "N/A" on both sides *)
C4_BothNotAvailable ==
    (pc = "calc_done" /\ ExactMatchInput) =>
        /\ results[1][5] = PyStr(NA)
        /\ results[1][6] = PyStr(NA)

(* C4 as amended: with cut sites 100 and 500 and a site at 100, the         *)
(* upstream distance is "N/A" and the downstream distance is 400            *)
C4_ExactMatch ==
    (pc = "calc_done" /\ ExactMatchInput) =>
        /\ Len(results) = 1
        /\ results[1][4] = PyStr(<<"EcoRI">>)
        /\ results[1][5] = PyStr(NA)
        /\ results[1][6] = PyInt(400)

C4_Witness == pc = "calc_done" /\ ExactMatchInput /\ Len(results) = 1

-----------------------------------------------------------------------------
(* The table of calc-distances *)

Written == pc = "calc_done" /\ Len(results) > 0

(* the columns of the header row named name *)
Columns(header, name) == {j \in 1..Len(header) : header[j] = name}

(* C3 as stated: every data row of the written table has as many fields as *)
(* the header (3 + 2 per enzyme), and the field under "<enzyme>             *)
(* UpstreamDist" (DownstreamDist) is the site's upstream (downstream)       *)
(* distance for that enzyme.                                                *)
C3_TableAligned ==
    Written =>
        \A i \in 1..Len(results) :
            LET header == output_file.rows[1]
                row == output_file.rows[i + 1]
            IN  /\ Len(header) = 3 + 2 * Cardinality(EnzymesOf(enzyme_file))
                /\ Len(row) = Len(header)
                /\ \A e \in EnzymesOf(enzyme_file) :
                      \A k \in Triples(results[i], e) :
                          /\ Columns(header, e \o <<" UpstreamDist">>) # {}
                          /\ \A j \in Columns(header, e \o <<" UpstreamDist">>) :
                                 j <= Len(row)
                                 /\ row[j] = FieldText(results[i][3 * k + 2])
                          /\ Columns(header, e \o <<" DownstreamDist">>) # {}
                          /\ \A j \in Columns(header, e \o <<" DownstreamDist">>) :
                                 j <= Len(row)
                                 /\ row[j] = FieldText(results[i][3 * k + 3])

-----------------------------------------------------------------------------
(* C7: rows without exactly 3 fields, anywhere in either input, are skipped: *)
(* the results and the written table are those of the inputs without them,  *)
(* and no such row ends the run.                                            *)
C7_MalformedRowsSkipped ==
    /\ pc = "calc_done" =>
          LET clean == calculate_distances(
                           read_enzyme_positions(ValidRows(enzyme_file)),
                           ValidRows(integration_file))
          IN  /\ results = clean
              /\ output_file = write_results(clean, output_file)
    /\ pc = "raised in read_enzyme_positions" =>
          Len(enzyme_file[rows_read + 1]) = 3
    /\ pc = "raised in calculate_distances" =>
          Len(integration_file[rows_read + 1]) = 3

(* a malformed row before a valid row in both inputs *)
C7_Witness ==
    /\ pc = "calc_done"
    /\ Len(enzyme_file) = 2
    /\ Len(enzyme_file[1]) = 4
    /\ Len(enzyme_file[2]) = 3
    /\ Len(integration_file) = 2
    /\ Len(integration_file[1]) = 4
    /\ Len(integration_file[2]) = 3
    /\ Len(results) = 1
    /\ output_file.exists
    /\ Len(output_file.rows) = 2

-----------------------------------------------------------------------------
(* C9: write_results given no results leaves the output path as it was (no  *)
(* file created, none truncated) and the run ends normally; given results   *)
(* it writes one header row and one data row per valid integration site.    *)
C9_NothingToWrite ==
    [][(pc = "calculate_distances" /\ pc' # pc /\ rows_read = Len(integration_file))
         => /\ pc' = "calc_done"
            /\ (Len(results) = 0 => output_file' = output_file)
            /\ (Len(results) > 0 =>
                  /\ output_file'.exists
                  /\ Len(output_file'.rows) = 1 + Len(ValidRows(integration_file))
                  /\ output_file'.rows[1][1] = <<"IntegrationSite#">>
                  /\ \A i \in 1..Len(ValidRows(integration_file)) :
                         output_file'.rows[i + 1][1]
                             = ValidRows(integration_file)[i][1])]_vars

(* no valid site row, a file already at the output path: it is kept *)
C9_Witness ==
    /\ pc = "calc_done"
    /\ Len(results) = 0
    /\ Len(integration_file) > 0
    /\ output_file = StaleFile

-----------------------------------------------------------------------------
RECURSIVE FirstSeen(_)
FirstSeen(names) ==
    IF Len(names) = 0 THEN <<>>
    ELSE LET before == FirstSeen(SubSeq(names, 1, Len(names) - 1))
         IN  IF names[Len(names)] \in Elements(before) THEN before
             ELSE Append(before, names[Len(names)])

(* the enzymes in the order of their first appearance in the enzyme input *)
EnzymeOrder(file) ==
    FirstSeen([i \in 1..Len(ValidRows(file)) |-> ValidRows(file)[i][1]])

(* C10: after any prefix of the integration input the results hold one entry *)
(* per valid row read, in input order, and every entry lists every enzyme of *)
(* the index, in the order of first appearance in the enzyme input.          *)
C10_RowShape ==
    Calculating =>
        LET read == ValidRows(SubSeq(integration_file, 1, rows_read))
            order == EnzymeOrder(enzyme_file)
        IN  /\ Len(results) = Len(read)
            /\ \A i \in 1..Len(results) :
                  /\ Len(results[i]) = 3 + 3 * Len(order)
                  /\ results[i][1] = PyStr(read[i][1])
                  /\ results[i][2] = PyStr(read[i][2])
                  /\ results[i][3] = PyInt(TextToInt(read[i][3]))
                  /\ \A k \in 1..Len(order) :
                         results[i][3 * k + 1] = PyStr(order[k])
                  /\ EnzymeNames(results[i]) = EnzymeNames(results[1])

(* part of the input read; two enzymes, the first without a site on chr1 *)
C10_Witness ==
    /\ pc = "calculate_distances"
    /\ rows_read = 1
    /\ Len(integration_file) = 2
    /\ Len(results) = 1
    /\ EnzymeOrder(enzyme_file) = <<(<<"BamHI">>), (<<"EcoRI">>)>>
    /\ results[1][5] = PyStr(NA)
    /\ IsInt(results[1][8])

-----------------------------------------------------------------------------
(* finalize-distances *)

InFinal ==
    pc \in {"calculate_final_distances", "raised in calculate_final_distances",
            "final_done"}

TableRows == DictReader(distances_file.rows)

OffsetNames == {"L", "H"}

(* the value C6 gives for column <e>_<n> of a row of the distance table;    *)
(* None where the claim gives none (a target column holding no integer)     *)
AdjustedValue(row, e, n) ==
    LET site == DictGet(row, <<"IntegrationSite#">>)
        column == e.str \o <<"_", n>>
        assigned == /\ DictHas(directions, site)
                    /\ DictHas(DictGet(directions, site), column)
        direction == IF assigned THEN DictGet(DictGet(directions, site), column)
                     ELSE PyNone
    IN  IF direction \notin {PyStr(<<"up">>), PyStr(<<"down">>)}
        THEN PyStr(NA)
        ELSE LET targetColumn ==
                     IF direction = PyStr(<<"up">>)
                     THEN e.str \o <<" UpstreamDist">>
                     ELSE e.str \o <<" DownstreamDist">>
             IN  IF ~DictHas(row, targetColumn) THEN PyStr(NA)
                 ELSE IF DictGet(row, targetColumn) = PyStr(NA) THEN PyStr(NA)
                 ELSE IF IntRaises(DictGet(row, targetColumn)) THEN PyNone
                 ELSE PyInt(TextToInt(DictGet(row, targetColumn).str)
                            + DictGet(lengths, e)[n])

(* C6: for every row of the distance table, every enzyme e of the lengths   *)
(* and each offset n of L, H, the value <e>_<n> is "N/A" if the site has no *)
(* direction "up" or "down" for <e>_<n>, or if the target column (<e>       *)
(* UpstreamDist for up, <e> DownstreamDist for down) is missing or holds    *)
(* "N/A"; otherwise the integer in that column plus the offset, unclamped.  *)
C6_Adjustment ==
    InFinal =>
        /\ Len(final_distances) = rows_read
        /\ \A i \in 1..Len(final_distances) :
              \A e \in Elements(lengths.keys) : \A n \in OffsetNames :
                  /\ DictHas(final_distances[i], e.str \o <<"_", n>>)
                  /\ DictGet(final_distances[i], e.str \o <<"_", n>>)
                         = AdjustedValue(TableRows[i], e, n)

(* offsets L = -300, H = 50 and "up" twice on an upstream distance of 200   *)
(* give -100 and 250; a site without directions gets "N/A"                  *)
C6_Witness ==
    /\ pc = "final_done"
    /\ Len(final_distances) = 2
    /\ DictHas(lengths, PyStr(<<"EcoRI">>))
    /\ DictGet(lengths, PyStr(<<"EcoRI">>)) = [L |-> -300, H |-> 50]
    /\ DictGet(final_distances[1], <<"EcoRI", "_", "L">>) = PyInt(-100)
    /\ DictGet(final_distances[1], <<"EcoRI", "_", "H">>) = PyInt(250)
    /\ DictGet(final_distances[2], <<"IntegrationSite#">>) = PyStr(<<"site2">>)
    /\ DictGet(final_distances[2], <<"EcoRI", "_", "L">>) = PyStr(NA)

(* C8 as stated: for every lengths dict and every distance table, also one  *)
(* without data rows, the returned columns are the three identity columns   *)
(* plus <enzyme>_L and <enzyme>_H for every enzyme of the lengths, and      *)
(* every record holds an integer or "N/A" for every column.                 *)
C8_ColumnSet ==
    pc = "final_done" =>
        /\ dynamic_fieldnames =
               Elements(IdentityColumns)
               \cup {e.str \o <<"_", n>> : e \in Elements(lengths.keys),
                                          n \in OffsetNames}
        /\ \A i \in 1..Len(final_distances) :
              /\ Elements(final_distances[i].keys) = dynamic_fieldnames
              /\ \A e \in Elements(lengths.keys) : \A n \in OffsetNames :
                     LET v == DictGet(final_distances[i], e.str \o <<"_", n>>)
                     IN  IsInt(v) \/ v = PyStr(NA)

-----------------------------------------------------------------------------
(* finalize-distances on the table that calc-distances wrote *)

AllUp == directions = read_directions(AllUpFile)

(* C5 as stated: stage 2 on the table written by stage 1, with "up" for     *)
(* every (site, enzyme, offset), ends without a parse failure, and for      *)
(* every site, enzyme of the lengths and offset whose raw upstream distance *)
(* is not "N/A" the value <enzyme>_<offset> is that distance plus the       *)
(* offset.                                                                  *)
C5_RoundTrip ==
    (InFinal /\ Len(results) > 0 /\ AllUp) =>
        /\ pc # "raised in calculate_final_distances"
        /\ \A i \in 1..Len(final_distances) :
              \A e \in Elements(lengths.keys) : \A n \in OffsetNames :
                  \A k \in Triples(results[i], e.str) :
                      results[i][3 * k + 2] # PyStr(NA) =>
                          DictGet(final_distances[i], e.str \o <<"_", n>>)
                              = PyInt(results[i][3 * k + 2].int
                                      + DictGet(lengths, e)[n])

====
